---- MODULE Spec2Model ----
(***************************************************************************)
(* Model of helpers/subprocess_helper.py of workstation-orchestrator: the  *)
(* command tokenizer, the sudo availability cache, the self-install guard, *)
(* the elevation decision, the elevation rewrite and the execution engine  *)
(* (run_subprocess).                                                       *)
(*                                                                         *)
(* Text is a sequence of atoms.  An atom is one special character          *)
(* (" ", "\t", "\n", "'", "\"", "\\", "&", "|", "-", "=") or a run of      *)
(* ordinary word characters ("apt", "sudo", "SUDO", ...).  A Python str is *)
(* [kind |-> "str", v |-> atoms]; a Python list of str is                  *)
(* [kind |-> "list", v |-> sequence of words], a word being atoms.         *)
(***************************************************************************)
EXTENDS Integers, Sequences, FiniteSets, TLC

VARIABLES
    host_sudo,        \* shutil.which("sudo") would find sudo on the host
    os_name,          \* os.name: "posix" or "nt"
    _sudo_available,  \* module-level cache: "None", "True" or "False"
    pc,               \* position of the run_subprocess call
    args,             \* arguments of the current call
    avail,            \* what is_sudo_available() answers during the call
    rewritten,        \* final_cmd after line 363
    final_cmd,        \* final_cmd as handed to subprocess.run
    shell,            \* local shell (forced at line 412)
    kwargs,           \* kwargs after kwargs.update(io_kwargs)
    files,            \* temporary directory: path -> [content, mode]
    script_path,      \* local script_path, "unset" until line 407
    script,           \* name of the file held by local script, "unset" until line 402
    child,            \* what the host did with the spawn
    outcome,          \* what run_subprocess hands to its caller
    helper,           \* the latest direct call of a helper function
    mpc,              \* position of the run_commands call
    cmd_run,          \* the entry of command.execute being run
    entries_run,      \* number of entries run_commands has started
    outputs,          \* OutputStore.outputs: name -> stored text
    errors            \* the commands logged as failed by run_commands

vars == <<host_sudo, os_name, _sudo_available, pc, args, avail, rewritten,
          final_cmd, shell, kwargs, files, script_path, script, child, outcome,
          helper, mpc, cmd_run, entries_run, outputs, errors>>

\* the state of run_commands and of the output store
moduleVars == <<mpc, cmd_run, entries_run, outputs, errors>>

----------------------------------------------------------------------------
(* Bounds *)

MaxWords == 3

----------------------------------------------------------------------------
(* Text helpers (Python str methods on atom sequences) *)

SP == " "
TAB == "\t"
NL == "\n"
SQ == "'"
DQ == "\""
BS == "\\"

Str(s) == [kind |-> "str", v |-> s]
List(l) == [kind |-> "list", v |-> l]

\* str.lower(), atom by atom
LowerAtom(a) ==
    CASE a = "SUDO" -> "sudo"
      [] a = "APT" -> "apt"
      [] a = "INSTALL" -> "install"
      [] a = "NET" -> "net"
      [] a = "USER" -> "user"
      [] a = "S" -> "s"
      [] OTHER -> a

Lower(w) == [i \in 1..Len(w) |-> LowerAtom(w[i])]

\* char.isspace()
IsSpace(a) == a \in {SP, TAB, NL}

\* word.startswith("-")
StartsWithDash(w) == Len(w) > 0 /\ w[1] = "-"

RECURSIVE Flatten(_)
Flatten(ss) == IF ss = <<>> THEN <<>> ELSE Head(ss) \o Flatten(Tail(ss))

\* " ".join(words)
RECURSIVE JoinSp(_)
JoinSp(ws) ==
    IF ws = <<>> THEN <<>>
    ELSE IF Len(ws) = 1 THEN ws[1]
    ELSE ws[1] \o <<SP>> \o JoinSp(Tail(ws))

\* str.split(): the maximal runs of non-whitespace atoms
RECURSIVE SplitWs(_, _, _)
SplitWs(s, i, cur) ==
    IF i > Len(s) THEN (IF cur = <<>> THEN <<>> ELSE <<cur>>)
    ELSE IF IsSpace(s[i])
         THEN (IF cur = <<>> THEN <<>> ELSE <<cur>>) \o SplitWs(s, i + 1, <<>>)
         ELSE SplitWs(s, i + 1, Append(cur, s[i]))

\* cmd.replace("\\\n", " ")
RECURSIVE ReplaceContinuation(_)
ReplaceContinuation(s) ==
    IF s = <<>> THEN <<>>
    ELSE IF Len(s) >= 2 /\ s[1] = BS /\ s[2] = NL
         THEN <<SP>> \o ReplaceContinuation(SubSeq(s, 3, Len(s)))
         ELSE <<s[1]>> \o ReplaceContinuation(Tail(s))

\* " ".join(cmd.split())
NormalizeWs(s) == JoinSp(SplitWs(s, 1, <<>>))

Contains(s, a) == \E i \in 1..Len(s) : s[i] = a

ChainOps == {<<"&", "&">>, <<"|", "|">>, <<"|">>}

----------------------------------------------------------------------------
(* parse_command *)

ScanInit == [parts |-> <<>>, separators |-> <<>>, current_part |-> <<>>,
             current_word |-> <<>>, in_quotes |-> FALSE, quote_char |-> "None"]

\* the iteration that strips the quote characters from the token
ScanCharDropQuotes(st, char) ==
    IF char \in {SQ, DQ} /\ (~st.in_quotes \/ st.quote_char = char)
    THEN [st EXCEPT !.in_quotes = ~st.in_quotes,
                    !.quote_char = IF ~st.in_quotes THEN char ELSE "None",
                    !.current_word = st.current_word]
    ELSE IF IsSpace(char) /\ ~st.in_quotes
    THEN IF st.current_word # <<>>
         THEN IF st.current_word \in ChainOps
              THEN IF st.current_part # <<>>
                   THEN [st EXCEPT !.parts = Append(st.parts, st.current_part),
                                   !.separators = Append(st.separators, st.current_word),
                                   !.current_part = <<>>,
                                   !.current_word = <<>>]
                   ELSE [st EXCEPT !.current_part = <<>>, !.current_word = <<>>]
              ELSE [st EXCEPT !.current_part = Append(st.current_part, st.current_word),
                              !.current_word = <<>>]
         ELSE st
    ELSE [st EXCEPT !.current_word = Append(st.current_word, char)]

\* one iteration of "for char in cmd"
ScanChar(st, char) ==
    IF char \in {SQ, DQ} /\ (~st.in_quotes \/ st.quote_char = char)
    THEN [st EXCEPT !.in_quotes = ~st.in_quotes,
                    !.quote_char = IF ~st.in_quotes THEN char ELSE "None",
                    !.current_word = Append(st.current_word, char)]
    ELSE IF IsSpace(char) /\ ~st.in_quotes
    THEN IF st.current_word # <<>>
         THEN IF st.current_word \in ChainOps
              THEN IF st.current_part # <<>>
                   THEN [st EXCEPT !.parts = Append(st.parts, st.current_part),
                                   !.separators = Append(st.separators, st.current_word),
                                   !.current_part = <<>>,
                                   !.current_word = <<>>]
                   ELSE [st EXCEPT !.current_part = <<>>, !.current_word = <<>>]
              ELSE [st EXCEPT !.current_part = Append(st.current_part, st.current_word),
                              !.current_word = <<>>]
         ELSE st
    ELSE [st EXCEPT !.current_word = Append(st.current_word, char)]

RECURSIVE Scan(_, _, _)
Scan(s, i, st) == IF i > Len(s) THEN st ELSE Scan(s, i + 1, ScanChar(st, s[i]))

\* "Handle last word"
ScanLast(st) ==
    IF st.current_word # <<>>
    THEN IF st.current_word \in ChainOps
         THEN IF st.current_part # <<>>
              THEN [st EXCEPT !.parts = Append(st.parts, st.current_part),
                              !.separators = Append(st.separators, st.current_word)]
              ELSE st
         ELSE [st EXCEPT !.parts = Append(st.parts, Append(st.current_part, st.current_word))]
    ELSE st

\* the tokenizer without the multi-line test of line 54
parse_command_single_line(cmd) ==
    IF cmd.kind = "list" THEN [parts |-> <<cmd.v>>, separators |-> <<>>]
    ELSE LET st == ScanLast(Scan(NormalizeWs(ReplaceContinuation(cmd.v)), 1, ScanInit))
         IN  [parts |-> IF st.parts = <<>> THEN <<<<>>>> ELSE st.parts,
              separators |-> st.separators]

parse_command(cmd) ==
    IF cmd.kind = "list" THEN [parts |-> <<cmd.v>>, separators |-> <<>>]
    ELSE IF Contains(cmd.v, NL) THEN [parts |-> <<<<cmd.v>>>>, separators |-> <<>>]
    ELSE LET st == ScanLast(Scan(NormalizeWs(ReplaceContinuation(cmd.v)), 1, ScanInit))
         IN  [parts |-> IF st.parts = <<>> THEN <<<<>>>> ELSE st.parts,
              separators |-> st.separators]

----------------------------------------------------------------------------
(* is_sudo_available / reset_sudo_cache *)

\* the probe without the cache: the host is asked every time
is_sudo_available_uncached(cache, host) == host

\* the value is_sudo_available() returns for a cache slot and a host
is_sudo_available(cache, host) == IF cache = "None" THEN host ELSE cache = "True"

\* shutil.which("sudo") is called: if _sudo_available is None
Lookup(cache) == cache = "None"

\* the cache slot after is_sudo_available() has answered b
Cached(b) == IF b THEN "True" ELSE "False"

----------------------------------------------------------------------------
(* is_installing_sudo *)

SUDO == <<"sudo">>

\* words[0].lower() == "sudo"
StartsWithSudo(words) == Len(words) > 0 /\ Lower(words[1]) = SUDO

\* "Skip sudo and its flags": the index (0-based) of the first word kept
RECURSIVE SkipFlags(_, _)
SkipFlags(words, idx) ==
    IF idx < Len(words) /\ StartsWithDash(words[idx + 1])
    THEN SkipFlags(words, idx + 1)
    ELSE idx

SudoStartIdx(words) == IF StartsWithSudo(words) THEN SkipFlags(words, 1) ELSE 0

InstallManagers == {<<"apt">>, <<"apt", "-", "get">>, <<"yum">>, <<"dnf">>, <<"zypper">>}

\* the package word compared as it stands, version suffix included
WholeWord(w) == w

\* word.split("=")[0]
RECURSIVE BeforeEq(_)
BeforeEq(w) ==
    IF w = <<>> \/ w[1] = "=" THEN <<>> ELSE <<w[1]>> \o BeforeEq(Tail(w))

_is_single_command_installing_sudo(words) ==
    IF words = <<>> THEN FALSE
    ELSE LET start_idx == SudoStartIdx(words)
         IN  IF start_idx >= Len(words) - 1 THEN FALSE
             ELSE LET pkg_manager == Lower(words[start_idx + 1])
                      action == words[start_idx + 2]
                  IN  IF \/ (pkg_manager = <<"pacman">> /\ action = <<"-", "S">>)
                         \/ (pkg_manager \in InstallManagers /\ Lower(action) = <<"install">>)
                      THEN \E i \in (start_idx + 3)..Len(words) :
                              /\ ~StartsWithDash(words[i])
                              /\ Lower(BeforeEq(words[i])) = SUDO
                      ELSE FALSE

is_installing_sudo(cmd) ==
    LET command_parts == parse_command(cmd).parts
    IN  \E i \in 1..Len(command_parts) :
            _is_single_command_installing_sudo(command_parts[i])

----------------------------------------------------------------------------
(* command_needs_sudo *)

AdminCommands == {<<"net">>, <<"sc">>, <<"reg">>, <<"bcdedit">>, <<"diskpart">>,
                  <<"chkdsk">>, <<"format">>}

AdminOperations == {<<"user">>, <<"localgroup">>, <<"accounts">>, <<"share">>}

SudoCommands == {<<"apt">>, <<"apt", "-", "get">>, <<"dnf">>, <<"yum">>, <<"pacman">>,
                 <<"rpm">>, <<"dpkg">>, <<"systemctl">>, <<"service">>, <<"mount">>,
                 <<"umount">>, <<"fdisk">>, <<"mkfs">>, <<"cryptsetup">>,
                 <<"lvextend">>, <<"resize2fs">>}

\* the host's file system: the words that name an existing file the user
\* may not execute (cmd_path and not os.access(cmd_path, os.X_OK))
NonExecutablePaths == {<<"/opt/tool">>}

\* the decision taken on part i alone, the later parts not looked at
NeedsSudoLoopFirstOnly(parts, i, os) ==
    IF i > Len(parts) \/ parts[i] = <<>> THEN FALSE
    ELSE LET words == parts[i]
             base_cmd == Lower(words[1])
         IN  IF os = "nt"
             THEN IF base_cmd = <<"net">>
                  THEN Len(words) > 1 /\ Lower(words[2]) \in AdminOperations
                  ELSE base_cmd \in AdminCommands
             ELSE \/ base_cmd = <<"net">> /\ Len(words) > 1 /\ Lower(words[2]) = <<"user">>
                  \/ base_cmd \in SudoCommands
                  \/ words[1] \in NonExecutablePaths

\* the loop "for words in parts" from index i on; the result of the first
\* return reached, FALSE when the loop runs out
RECURSIVE NeedsSudoLoop(_, _, _)
NeedsSudoLoop(parts, i, os) ==
    IF i > Len(parts) THEN FALSE
    ELSE LET words == parts[i]
             base_cmd == Lower(words[1])
         IN  IF words = <<>> THEN NeedsSudoLoop(parts, i + 1, os)
             ELSE IF os = "nt"
             THEN IF base_cmd \in AdminCommands
                  THEN IF base_cmd = <<"net">>
                       THEN Len(words) > 1 /\ Lower(words[2]) \in AdminOperations
                       ELSE TRUE
                  ELSE NeedsSudoLoop(parts, i + 1, os)
             ELSE IF base_cmd = <<"net">> /\ Len(words) > 1 /\ Lower(words[2]) = <<"user">>
                  THEN TRUE
                  ELSE IF base_cmd \in SudoCommands THEN TRUE
                  ELSE IF words[1] \in NonExecutablePaths THEN TRUE
                  ELSE NeedsSudoLoop(parts, i + 1, os)

\* command_needs_sudo without its first test, the availability of sudo
command_needs_sudo_unprobed(cmd, sudo_ok, os) ==
    LET parts == parse_command(cmd).parts
    IN  IF \E i \in 1..Len(parts) : StartsWithSudo(parts[i]) THEN FALSE
        ELSE NeedsSudoLoop(parts, 1, os)

\* command_needs_sudo(cmd) when is_sudo_available() answers sudo_ok
command_needs_sudo(cmd, sudo_ok, os) ==
    IF ~sudo_ok THEN FALSE
    ELSE LET parts == parse_command(cmd).parts
         IN  IF \E i \in 1..Len(parts) : StartsWithSudo(parts[i]) THEN FALSE
             ELSE NeedsSudoLoop(parts, 1, os)

----------------------------------------------------------------------------
(* strip_sudo *)

\* words[start_idx:]
DropSudo(words) == SubSeq(words, SudoStartIdx(words) + 1, Len(words))

\* the reconstruction that forgets the separators
ReconstructNoSeparators(parts, separators, i) == Flatten(SubSeq(parts, i, Len(parts)))

\* "for i, part in enumerate(parts)": separators[i - 1] before part i
RECURSIVE Reconstruct(_, _, _)
Reconstruct(parts, separators, i) ==
    IF i > Len(parts) THEN <<>>
    ELSE (IF i > 1 /\ i - 1 <= Len(separators) THEN <<separators[i - 1]>> ELSE <<>>)
         \o parts[i] \o Reconstruct(parts, separators, i + 1)

\* strip_sudo without the self-install test of lines 189-190
strip_sudo_unguarded(cmd) ==
    LET p == parse_command(cmd)
        stripped_parts == [i \in 1..Len(p.parts) |-> DropSudo(p.parts[i])]
    IN  IF cmd.kind = "list" THEN List(stripped_parts[1])
        ELSE Str(JoinSp(Reconstruct(stripped_parts, p.separators, 1)))

strip_sudo(cmd) ==
    IF is_installing_sudo(cmd) THEN cmd
    ELSE LET p == parse_command(cmd)
             stripped_parts == [i \in 1..Len(p.parts) |-> DropSudo(p.parts[i])]
         IN  IF cmd.kind = "list" THEN List(stripped_parts[1])
             ELSE Str(JoinSp(Reconstruct(stripped_parts, p.separators, 1)))

----------------------------------------------------------------------------
(* run_subprocess, lines 327-363: the elevation rewrite *)

\* the Windows branch removes the sudo word only, not its flags
ProcessPartKeepFlags(part, sudo_ok, os) ==
    IF os = "nt"
    THEN IF Lower(part[1]) = SUDO THEN Tail(part) ELSE part
    ELSE IF Lower(part[1]) # SUDO /\ command_needs_sudo(List(part), sudo_ok, os)
         THEN <<SUDO>> \o part
         ELSE part

\* the Unix branch decides on the command behind a leading sudo
ProcessPartStripFirst(part, sudo_ok, os) ==
    IF os = "nt"
    THEN IF Lower(part[1]) = SUDO
         THEN SubSeq(part, SkipFlags(part, 1) + 1, Len(part))
         ELSE part
    ELSE IF command_needs_sudo(List(DropSudo(part)), sudo_ok, os)
         THEN <<SUDO>> \o part
         ELSE part

\* the body of "for part in parts" for a non-empty part
ProcessPart(part, sudo_ok, os) ==
    IF os = "nt"
    THEN IF Lower(part[1]) = SUDO
         THEN SubSeq(part, SkipFlags(part, 1) + 1, Len(part))
         ELSE part
    ELSE IF Lower(part[1]) # SUDO /\ command_needs_sudo(List(part), sudo_ok, os)
         THEN <<SUDO>> \o part
         ELSE part

RECURSIVE ProcessParts(_, _, _)
ProcessParts(parts, sudo_ok, os) ==
    IF parts = <<>> THEN <<>>
    ELSE (IF Head(parts) = <<>> THEN <<>>
          ELSE <<ProcessPart(Head(parts), sudo_ok, os)>>)
         \o ProcessParts(Tail(parts), sudo_ok, os)

\* final_cmd after "Convert to string if input was string"
Rewrite(cmd, sudo_ok, os) ==
    LET p == parse_command(cmd)
        final == Reconstruct(ProcessParts(p.parts, sudo_ok, os), p.separators, 1)
    IN  IF cmd.kind = "str" THEN Str(JoinSp(final)) ELSE List(final)

\* is_sudo_available() is reached: some non-empty part on a Unix host does
\* not start with sudo
ProbeReached(cmd, os) ==
    /\ os # "nt"
    /\ \E i \in 1..Len(parse_command(cmd).parts) :
          LET part == parse_command(cmd).parts[i]
          IN  part # <<>> /\ Lower(part[1]) # SUDO

----------------------------------------------------------------------------
(* shlex.split(final_cmd) (POSIX rules, no comments) and str(list) *)

ShlexInit == [state |-> "ws", escapedstate |-> "a", token |-> <<>>,
              quoted |-> FALSE, tokens |-> <<>>]

\* shlex.read_token for one character
ShlexChar(st, c) ==
    CASE st.state = "ws" ->
            IF IsSpace(c) THEN st
            ELSE IF c = BS THEN [st EXCEPT !.escapedstate = "a", !.state = "esc"]
            ELSE IF c \in {SQ, DQ} THEN [st EXCEPT !.state = c, !.quoted = TRUE]
            ELSE [st EXCEPT !.token = <<c>>, !.state = "a"]
      [] st.state \in {SQ, DQ} ->
            IF c = st.state THEN [st EXCEPT !.state = "a"]
            ELSE IF c = BS /\ st.state = DQ
                 THEN [st EXCEPT !.escapedstate = st.state, !.state = "esc"]
            ELSE [st EXCEPT !.token = Append(st.token, c)]
      [] st.state = "esc" ->
            [st EXCEPT !.token = IF st.escapedstate = DQ /\ c # BS /\ c # DQ
                                 THEN st.token \o <<BS, c>>
                                 ELSE Append(st.token, c),
                       !.state = st.escapedstate]
      [] OTHER ->
            IF IsSpace(c)
            THEN IF st.token # <<>> \/ st.quoted
                 THEN [st EXCEPT !.tokens = Append(st.tokens, st.token),
                                 !.token = <<>>, !.quoted = FALSE, !.state = "ws"]
                 ELSE [st EXCEPT !.state = "ws"]
            ELSE IF c \in {SQ, DQ} THEN [st EXCEPT !.state = c, !.quoted = TRUE]
            ELSE IF c = BS THEN [st EXCEPT !.escapedstate = "a", !.state = "esc"]
            ELSE [st EXCEPT !.token = Append(st.token, c)]

RECURSIVE ShlexScan(_, _, _)
ShlexScan(s, i, st) ==
    IF i > Len(s) THEN st ELSE ShlexScan(s, i + 1, ShlexChar(st, s[i]))

\* shlex.split(s): ok = FALSE stands for the ValueError of an unclosed
\* quotation or a trailing backslash
shlex_split(s) ==
    LET st == ShlexScan(s, 1, ShlexInit)
    IN  IF st.state \in {SQ, DQ, "esc"} THEN [ok |-> FALSE, tokens |-> <<>>]
        ELSE [ok |-> TRUE,
              tokens |-> IF st.token # <<>> \/ st.quoted
                         THEN Append(st.tokens, st.token) ELSE st.tokens]

\* repr(word) as Python prints a str inside a list
ReprAtom(a, q) ==
    CASE a = BS -> <<BS, BS>>
      [] a = NL -> <<BS, "n">>
      [] a = TAB -> <<BS, "t">>
      [] a = q /\ q = SQ -> <<BS, SQ>>
      [] OTHER -> <<a>>

ReprWord(w) ==
    LET q == IF Contains(w, SQ) /\ ~Contains(w, DQ) THEN DQ ELSE SQ
    IN  <<q>> \o Flatten([i \in 1..Len(w) |-> ReprAtom(w[i], q)]) \o <<q>>

RECURSIVE ReprItems(_)
ReprItems(l) ==
    IF l = <<>> THEN <<>>
    ELSE IF Len(l) = 1 THEN ReprWord(l[1])
    ELSE ReprWord(l[1]) \o <<",", SP>> \o ReprItems(Tail(l))

\* f"{final_cmd}": a str is itself, a list is its repr
Format(c) == IF c.kind = "str" THEN c.v ELSE <<"[">> \o ReprItems(c.v) \o <<"]">>

----------------------------------------------------------------------------
(* The inputs of run_subprocess *)

NoneVal == [kind |-> "None"]

CoreWords == {<<"sudo">>, <<"apt">>, <<"install">>, <<"-", "y">>, <<"&", "&">>, <<"vim">>}

WordSeqs == UNION {[1..k -> CoreWords] : k \in 1..MaxWords}

W(a) == <<a>>
APTGET == <<"apt", "-", "get">>
AND == <<"&", "&">>

\* commands of the tests and of the scenarios, and edge cases of the tokenizer
ExtraCmds ==
    { Str(JoinSp(<<APTGET, W("install"), <<"-", "y">>, W("sudo")>>)),
      Str(JoinSp(<<APTGET, W("install"), <<"-", "y">>, W("curl")>>)),
      Str(JoinSp(<<W("apt"), W("update"), AND, W("apt"), W("install"), W("vim")>>)),
      Str(JoinSp(<<W("apt"), W("update"), AND, W("sudo"), W("apt"), W("install"), W("vim")>>)),
      Str(JoinSp(<<W("sudo"), W("apt"), W("update")>>)),
      List(<<W("sudo"), W("apt"), W("update")>>),
      List(<<W("apt"), W("update")>>),
      List(<<>>),
      Str(<<>>),
      Str(<<"apt", SP, "update", NL, "apt", SP, "install", SP, "vim">>),
      Str(<<"sudo", NL, "apt">>),
      Str(<<"apt", SP, BS, NL, SP, "update">>),
      Str(<<SP, "sudo", SP, SP, "-", "H", SP, "apt", TAB, "update", SP>>),
      Str(JoinSp(<<W("SUDO"), W("apt"), W("update")>>)),
      Str(JoinSp(<<W("apt"), W("update"), W("|"), W("tee"), <<"|", "|">>, W("vim")>>)),
      Str(JoinSp(<<W("net"), W("user"), W("admin")>>)),
      Str(JoinSp(<<W("/opt/tool"), W("run"), AND, W("ls")>>)),
      Str(JoinSp(<<W("apt"), <<SQ, "a", SP, "&", "&", SP, "b", SQ>>, W("vim")>>)),
      Str(JoinSp(<<W("apt"), <<SQ, "a">>, AND, W("apt")>>)),
      Str(JoinSp(<<W("echo"), <<DQ, "it", SQ, "s", DQ>>>>)),
      Str(JoinSp(<<W("pacman"), <<"-", "S">>, W("sudo")>>)),
      Str(JoinSp(<<W("sudo"), <<"-", "H">>, W("apt"), W("install"), <<"sudo", "=", "1.8">>>>)),
      Str(JoinSp(<<W("sudo"), W("sudo"), W("apt")>>)),
      Str(JoinSp(<<<<DQ, "apt", DQ>>, W("update")>>)),
      Str(JoinSp(<<W("sudo"), <<"-", "H">>, W("sudo"), W("apt"), W("update")>>)) }

RichCmds == {Str(JoinSp(ws)) : ws \in WordSeqs} \cup {List(ws) : ws \in WordSeqs}
            \cup ExtraCmds

\* the commands run under every combination of the other arguments
ExecCmds == { Str(JoinSp(<<W("apt"), W("update")>>)),
              List(<<W("echo"), <<"it", SQ, "s">>>>),
              Str(<<"echo", SP, "a", NL, "apt", SP, "update">>) }

NoKwargs == [stdout |-> "absent", stderr |-> "absent", stdin |-> "absent",
             expected_kwargs |-> "absent"]

\* **kwargs of the caller: none, own stdio, the tests' expected_kwargs
UserKwargs == { NoKwargs,
                [NoKwargs EXCEPT !.stdin = "DEVNULL"],
                [NoKwargs EXCEPT !.stdout = "DEVNULL", !.stderr = "DEVNULL"],
                [NoKwargs EXCEPT !.expected_kwargs = "has_stdin"] }

Inputs == {NoneVal, Str(<<>>), Str(<<"y">>), Str(<<"y", NL>>)}

ShellTypes == {"bash", "cmd"}

DefaultArgs(c) == [cmd |-> c, interactive |-> FALSE, input |-> NoneVal, shell |-> FALSE,
                   raise_on_error |-> FALSE, shell_type |-> "None", kwargs |-> NoKwargs]

CallArgs ==
    {DefaultArgs(c) : c \in RichCmds} \cup
    [cmd : ExecCmds, interactive : BOOLEAN, input : Inputs, shell : BOOLEAN,
     raise_on_error : BOOLEAN, shell_type : ShellTypes \cup {"None"}, kwargs : UserKwargs]

\* return codes of a child that ran
ExitCodes == {0, 1}

\* what a child may write to its stdout
Stdouts == {<<>>, <<"out">>, <<"out", NL>>, <<"out", NL, NL>>}

\* names tempfile.NamedTemporaryFile may pick
TmpNames == {"/tmp/tmp1.sh", "/tmp/tmp2.sh"}

----------------------------------------------------------------------------
(* run_subprocess, lines 365-389: IO handling *)

\* if input: (a non-empty str)
Truthy(input) == input.kind = "str" /\ input.v # <<>>

\* input.endswith("\n")
EndsWithNl(v) == Len(v) > 0 /\ v[Len(v)] = NL

\* io_kwargs["input"]
IoInput(input) ==
    IF ~Truthy(input) THEN [kind |-> "absent"]
    ELSE IF EndsWithNl(input.v) THEN input ELSE Str(Append(input.v, NL))

\* io_kwargs after lines 366-386; "absent" is a key the dict does not hold
IoKwargs(interactive, input, user) ==
    [stdout |-> IF interactive THEN "None" ELSE "PIPE",
     stderr |-> IF interactive THEN "None" ELSE "PIPE",
     stdin  |-> IF Truthy(input)
                THEN IF user.expected_kwargs = "has_stdin" THEN "PIPE" ELSE "absent"
                ELSE IF interactive THEN "PIPE" ELSE "None",
     input  |-> IoInput(input)]

\* kwargs.update(io_kwargs)
MergeKwargs(user, io) ==
    [stdout |-> IF io.stdout = "absent" THEN user.stdout ELSE io.stdout,
     stderr |-> IF io.stderr = "absent" THEN user.stderr ELSE io.stderr,
     stdin  |-> IF io.stdin = "absent" THEN user.stdin ELSE io.stdin,
     input  |-> io.input,
     expected_kwargs |-> user.expected_kwargs]

\* if isinstance(final_cmd, str) and not shell: final_cmd = shlex.split(final_cmd)
NeedsSplit(c, sh) == c.kind = "str" /\ ~sh

----------------------------------------------------------------------------
(* run_subprocess, lines 397-444: script, spawn, cleanup *)

get_shell_command(shell_type) ==
    CASE shell_type = "bash" -> <<"bash", SP, "-", "c">>
      [] shell_type = "sh" -> <<"sh", SP, "-", "c">>
      [] shell_type = "bat" -> <<"cmd.exe", SP, "/c">>
      [] shell_type = "cmd" -> <<"cmd.exe", SP, "/c">>
      [] shell_type = "powershell" -> <<"powershell.exe", SP, "-", "Command">>
      [] shell_type = "zsh" -> <<"zsh", SP, "-", "c">>
      [] shell_type = "fish" -> <<"fish", SP, "-", "c">>

\* script_content = f"\n{final_cmd}"
ScriptContent(c) == <<NL>> \o Format(c)

\* os.chmod(script_path, 0o755)
ScriptMode == "0755"

\* final_cmd = f"{shell_type.get_shell_command()} {script_path}"
ScriptCommand(shell_type, path) == Str(get_shell_command(shell_type) \o <<SP, path>>)

NoChild == [started |-> FALSE]

NoOutcome == [kind |-> "none"]

\* no helper function has been called directly
NoHelper == [fn |-> "none"]

\* check=True
CheckAlways(raise_on_error) == TRUE

\* check=raise_on_error
CheckArg(raise_on_error) == raise_on_error

\* the input the call binds to subprocess.run's input parameter: kwargs'
\* "input" in the interactive call, the input argument otherwise
RunInput(a, kw) == IF a.interactive THEN kw.input ELSE a.input

\* the Python call itself fails: input= is passed twice
DuplicateInput(a, kw) == ~a.interactive /\ kw.input.kind # "absent"

\* subprocess.run: "stdin and input arguments may not both be used"
StdinAndInput(inp, kw) ==
    inp.kind = "str" /\ kw.stdin \notin {"absent", "None"}

\* the stdin the child gets
ChildStdin(inp, kw) ==
    IF inp.kind = "str" THEN "PIPE"
    ELSE IF kw.stdin = "absent" THEN "None" ELSE kw.stdin

\* "absent" and None both leave the stream inherited
Stream(v) == IF v = "absent" THEN "None" ELSE v

\* no finally block
CleanupForgotten(fs, shell_type, path) == fs

\* the finally block
Cleanup(fs, shell_type, path) ==
    IF shell_type # "None" /\ path # "unset"
    THEN {f \in fs : f.path # path}
    ELSE fs

----------------------------------------------------------------------------
(* run_commands: the entries, create_command, the output store *)

MaxEntries == 2

NoEntry == [run |-> "none"]

\* saved_output_name values in use
OutputNames == {"my_var"}

NoCodes == [kind |-> "None"]

Codes(l) == [kind |-> "list", v |-> l]

\* CommandExecution.run texts: single-line and multi-line
Runs == { <<"false">>, <<"apt", SP, "update">>,
          <<"echo", SP, "a", NL, "apt", SP, "update">> }

\* the entries of command.execute; elevate and args on the plain entry only
Entries ==
    [run : Runs, args : {NoneVal}, fail_on_error : BOOLEAN,
     valid_exit_codes : {NoCodes, Codes(<<>>), Codes(<<1>>), Codes(<<0, 1>>)},
     saved_output_name : {"None", "my_var"}, elevate : {FALSE}]
    \cup
    [run : Runs, args : {NoneVal, List(<<W("x")>>)}, fail_on_error : {FALSE},
     valid_exit_codes : {NoCodes}, saved_output_name : {"None"}, elevate : BOOLEAN]

\* the shell of a Command that validates on the host (validate_shell_type)
CommandShell(os) == IF os = "nt" THEN "cmd" ELSE "bash"

\* platform.system().lower() == "linux"
IsLinux(os) == os = "posix"

\* cmd.split("\n")
RECURSIVE SplitLines(_, _)
SplitLines(s, cur) ==
    IF s = <<>> THEN <<cur>>
    ELSE IF Head(s) = NL THEN <<cur>> \o SplitLines(Tail(s), <<>>)
    ELSE SplitLines(Tail(s), Append(cur, Head(s)))

\* "\n".join(lines)
RECURSIVE JoinNl(_)
JoinNl(ls) ==
    IF ls = <<>> THEN <<>>
    ELSE IF Len(ls) = 1 THEN ls[1]
    ELSE ls[1] \o <<NL>> \o JoinNl(Tail(ls))

\* CommandExecution.create_command(shell_command)
create_command(e, shell_command, os) ==
    IF Contains(e.run, NL) /\ IsLinux(os)
    THEN LET lines == SplitLines(e.run, <<>>)
         IN  JoinNl([i \in 1..Len(lines) |->
                        IF e.elevate THEN <<"sudo", SP>> \o lines[i] ELSE lines[i]])
    ELSE LET elevated == IF e.elevate /\ IsLinux(os) THEN <<"sudo", SP>> \o e.run ELSE e.run
             with_args == IF e.args.kind = "list" /\ e.args.v # <<>>
                          THEN elevated \o <<SP>> \o JoinSp(e.args.v) ELSE elevated
         IN  shell_command \o <<SP, DQ>> \o with_args \o <<DQ>>

\* valid_exit_codes as run_commands uses it: the configured list with 0
\* appended, [0] when none is configured
valid_exit_codes(e) ==
    IF e.valid_exit_codes.kind = "list" /\ e.valid_exit_codes.v # <<>>
    THEN Append(e.valid_exit_codes.v, 0)
    ELSE <<0>>

\* "valid_exit_codes += [0]" changes the configured list in place
AfterAppend(e) ==
    IF e.valid_exit_codes.kind = "list" /\ e.valid_exit_codes.v # <<>>
    THEN [e EXCEPT !.valid_exit_codes = Codes(valid_exit_codes(e))]
    ELSE e

\* the arguments run_commands passes to run_subprocess
EntryArgs(e, os) ==
    [cmd |-> Str(create_command(e, get_shell_command(CommandShell(os)), os)),
     interactive |-> FALSE, input |-> NoneVal,
     shell |-> Contains(e.run, NL),
     raise_on_error |-> e.fail_on_error,
     shell_type |-> IF Contains(e.run, NL) THEN CommandShell(os) ELSE "None",
     kwargs |-> NoKwargs]

\* value.rstrip("\n")
RECURSIVE RstripNl(_)
RstripNl(v) == IF EndsWithNl(v) THEN RstripNl(SubSeq(v, 1, Len(v) - 1)) ELSE v

\* OutputStore.set_output(key, value)
set_output(store, key, value) ==
    [store EXCEPT ![key] = Str(IF EndsWithNl(value.v) THEN RstripNl(value.v) ELSE value.v)]

\* CommandExecution.save_output(output)
save_output(store, e, output) ==
    IF e.saved_output_name # "None" THEN set_output(store, e.saved_output_name, output)
    ELSE store

----------------------------------------------------------------------------
(* The state machine *)

Init ==
    /\ host_sudo \in BOOLEAN
    /\ os_name \in {"posix", "nt"}
    /\ _sudo_available = "None"
    /\ pc = "idle"
    /\ args = DefaultArgs(Str(<<>>))
    /\ avail = FALSE
    /\ rewritten = Str(<<>>)
    /\ final_cmd = Str(<<>>)
    /\ shell = FALSE
    /\ kwargs = MergeKwargs(NoKwargs, IoKwargs(FALSE, NoneVal, NoKwargs))
    /\ files = {}
    /\ script_path = "unset"
    /\ script = "unset"
    /\ child = NoChild
    /\ outcome = NoOutcome
    /\ helper = NoHelper
    /\ mpc = "idle"
    /\ cmd_run = NoEntry
    /\ entries_run = 0
    /\ outputs = [n \in OutputNames |-> NoneVal]
    /\ errors = <<>>

\* the call has handed its outcome to the caller
Done == pc \in {"returned", "raised"}

\* run_subprocess(a.cmd, ...) up to the try statement (lines 327-395)
CallWith(a) ==
    /\  LET sudo_ok == is_sudo_available(_sudo_available, host_sudo)
            final == Rewrite(a.cmd, sudo_ok, os_name)
            split == shlex_split(final.v)
        IN  /\ args' = a
            /\ avail' = sudo_ok
            /\ _sudo_available' = IF ProbeReached(a.cmd, os_name)
                                  THEN Cached(sudo_ok) ELSE _sudo_available
            /\ rewritten' = final
            /\ kwargs' = MergeKwargs(a.kwargs, IoKwargs(a.interactive, a.input, a.kwargs))
            /\ shell' = a.shell
            /\ IF NeedsSplit(final, a.shell)
               THEN IF split.ok
                    THEN /\ final_cmd' = List(split.tokens)
                         /\ pc' = "try"
                         /\ outcome' = NoOutcome
                    ELSE /\ final_cmd' = final
                         /\ pc' = "raised"
                         /\ outcome' = [kind |-> "ValueError"]
               ELSE /\ final_cmd' = final
                    /\ pc' = "try"
                    /\ outcome' = NoOutcome
    /\ script_path' = "unset"
    /\ script' = "unset"
    /\ child' = NoChild
    /\ UNCHANGED <<host_sudo, os_name, files>>

\* run_subprocess called directly
Call ==
    /\ pc = "idle"
    /\ \E a \in CallArgs : CallWith(a)
    /\ UNCHANGED <<helper, moduleVars>>

\* if shell_type: write the script (lines 398-412)
Materialise ==
    /\ pc = "try"
    /\ args.shell_type # "None"
    /\ script_path = "unset"
    /\ \E path \in TmpNames \ {f.path : f \in files} :
        /\ files' = files \cup {[path |-> path, content |-> ScriptContent(final_cmd),
                                 mode |-> ScriptMode]}
        /\ script_path' = path
        /\ script' = path
        /\ final_cmd' = ScriptCommand(args.shell_type, path)
    /\ shell' = TRUE
    /\ UNCHANGED <<host_sudo, os_name, _sudo_available, pc, args, avail, rewritten,
                   kwargs, child, outcome, helper>>
    /\ UNCHANGED moduleVars

SpawnReady == pc = "try" /\ (args.shell_type = "None" \/ script_path # "unset")

\* the call of subprocess.run does not get as far as starting a child
\* (lines 414-431)
SpawnRejected ==
    /\ SpawnReady
    /\ \/ DuplicateInput(args, kwargs) /\ outcome' = [kind |-> "TypeError"]
       \/ /\ ~DuplicateInput(args, kwargs)
          /\ StdinAndInput(RunInput(args, kwargs), kwargs)
          /\ outcome' = [kind |-> "ValueError"]
       \/ /\ ~DuplicateInput(args, kwargs)
          /\ ~StdinAndInput(RunInput(args, kwargs), kwargs)
          /\ kwargs.expected_kwargs # "absent"
          /\ outcome' = [kind |-> "TypeError"]
       \/ /\ ~DuplicateInput(args, kwargs)
          /\ ~StdinAndInput(RunInput(args, kwargs), kwargs)
          /\ kwargs.expected_kwargs = "absent"
          /\ outcome' = [kind |-> "OSError"]
    /\ child' = NoChild
    /\ pc' = "finally"
    /\ UNCHANGED <<host_sudo, os_name, _sudo_available, args, avail, rewritten,
                   final_cmd, shell, kwargs, files, script_path, script, helper>>
    /\ UNCHANGED moduleVars

\* subprocess.run starts the child, which exits with rc (lines 414-431)
SpawnChild ==
    /\ SpawnReady
    /\ ~DuplicateInput(args, kwargs)
    /\ ~StdinAndInput(RunInput(args, kwargs), kwargs)
    /\ kwargs.expected_kwargs = "absent"
    /\ final_cmd # List(<<>>)
    /\ \E rc \in ExitCodes, out \in Stdouts :
        /\ child' = [started |-> TRUE, argv |-> final_cmd, shell |-> shell,
                     stdin |-> ChildStdin(RunInput(args, kwargs), kwargs),
                     stdout |-> Stream(kwargs.stdout), stderr |-> Stream(kwargs.stderr),
                     payload |-> RunInput(args, kwargs), rc |-> rc]
        /\ outcome' = IF CheckArg(args.raise_on_error) /\ rc # 0
                      THEN [kind |-> "CalledProcessError", returncode |-> rc]
                      ELSE [kind |-> "CompletedProcess", returncode |-> rc,
                            captured |-> kwargs.stdout = "PIPE" /\ kwargs.stderr = "PIPE",
                            stdout |-> IF kwargs.stdout = "PIPE" THEN Str(out) ELSE NoneVal]
    /\ pc' = "finally"
    /\ UNCHANGED <<host_sudo, os_name, _sudo_available, args, avail, rewritten,
                   final_cmd, shell, kwargs, files, script_path, script, helper>>
    /\ UNCHANGED moduleVars

\* except ...: raise; finally: os.unlink(script_path) (lines 433-444)
Finally ==
    /\ pc = "finally"
    /\ files' = Cleanup(files, args.shell_type, script_path)
    /\ pc' = IF outcome.kind = "CompletedProcess" THEN "returned" ELSE "raised"
    /\ UNCHANGED <<host_sudo, os_name, _sudo_available, args, avail, rewritten,
                   final_cmd, shell, kwargs, script_path, script, child, outcome,
                   helper>>
    /\ UNCHANGED moduleVars

\* the caller goes on; the locals of the call are discarded
Return ==
    /\ Done
    /\ pc' = "idle"
    /\ args' = DefaultArgs(Str(<<>>))
    /\ avail' = FALSE
    /\ rewritten' = Str(<<>>)
    /\ final_cmd' = Str(<<>>)
    /\ shell' = FALSE
    /\ kwargs' = MergeKwargs(NoKwargs, IoKwargs(FALSE, NoneVal, NoKwargs))
    /\ script_path' = "unset"
    /\ script' = "unset"
    /\ child' = NoChild
    /\ outcome' = NoOutcome
    /\ UNCHANGED <<host_sudo, os_name, _sudo_available, files, helper>>
    /\ UNCHANGED moduleVars

\* reset_sudo_cache()
ResetSudoCache ==
    /\ pc = "idle"
    /\ _sudo_available # "None"
    /\ _sudo_available' = "None"
    /\ UNCHANGED <<host_sudo, os_name, pc, args, avail, rewritten, final_cmd, shell,
                   kwargs, files, script_path, script, child, outcome, helper>>
    /\ UNCHANGED moduleVars

\* sudo is installed on the host or removed from it
HostChange ==
    /\ host_sudo' = ~host_sudo
    /\ UNCHANGED <<os_name, _sudo_available, pc, args, avail, rewritten, final_cmd,
                   shell, kwargs, files, script_path, script, child, outcome, helper>>
    /\ UNCHANGED moduleVars

Next ==
    \/ Call
    \/ Materialise
    \/ SpawnRejected
    \/ SpawnChild
    \/ Finally
    \/ Return
    \/ ResetSudoCache
    \/ HostChange

Spec == Init /\ [][Next]_vars

----------------------------------------------------------------------------
(* The helper functions called directly (as the tests call them) *)

MaxAtoms == 4

MaxHelperWords == 2

\* the characters the tokenizer tells apart, and one ordinary word
TokenAtoms == {"a", SP, SQ, DQ, "&", "|"}

\* every text of up to MaxAtoms atoms (a run of ordinary characters is one
\* atom, so no two "a" are adjacent)
AtomStrings ==
    {s \in UNION {[1..k -> TokenAtoms] : k \in 0..MaxAtoms} :
        \A i \in 1..(Len(s) - 1) : ~(s[i] = "a" /\ s[i + 1] = "a")}

\* tokenizer cases beyond MaxAtoms: whitespace runs and operators in quotes,
\* quotes inside quotes, operators glued to words, operators at the ends
TokenizerCmds ==
    { Str(<<"echo", SP, SQ, "a", SP, SP, SP, "b", SQ>>),
      Str(<<"echo", SP, DQ, "a", TAB, "b", DQ, SP, "c">>),
      Str(<<"echo", SP, SQ, "a", SP, "|", "|", SP, "b", SQ, SP, "|", SP, "tee">>),
      Str(<<"echo", SP, DQ, "a", SP, SQ, SP, "&", "&", SP, "b", DQ, SP, "&", "&", SP, "ls">>),
      Str(<<"a", "&", "&", "b", SP, "&", "&", "&", SP, "c">>),
      Str(<<"&", "&", SP, "apt", SP, "update", SP, "&", "&">>),
      Str(<<"apt", SP, "&", "&", SP, "|", SP, "vim">>),
      Str(<<"echo", SP, SQ, "a", SP, "b">>),
      Str(<<"a", SP, BS, NL, SP, "b">>),
      Str(<<"a", SP, "&", "&", NL, "b">>),
      Str(<<NL>>),
      List(<<W("a"), AND, <<SQ, "b", SP, "c", SQ>>>>),
      List(<<<<"a", NL, "b">>, W("|")>>),
      List(<<<<>>>>) }

ParseCmds == RichCmds \cup {Str(s) : s \in AtomStrings} \cup TokenizerCmds

\* words of the package-manager commands
InstallWords == {<<"sudo">>, <<"-", "y">>, <<"apt">>, <<"install">>, <<"pacman">>,
                 <<"-", "S">>, <<"-", "s">>, <<"INSTALL">>, <<"SUDO">>,
                 <<"sudo", "=", "1.8">>, <<"pseudo", "-", "sudo">>, <<"vim">>}

\* the tests' commands and the cases around them
InstallCmds ==
    { Str(JoinSp(<<W("zypper"), W("install"), W("sudo")>>)),
      Str(JoinSp(<<W("dnf"), W("install"), W("sudo")>>)),
      Str(JoinSp(<<W("yum"), W("install"), W("sudo")>>)),
      Str(JoinSp(<<APTGET, W("install"), W("sudo")>>)),
      Str(JoinSp(<<W("APT"), W("install"), W("sudo")>>)),
      List(<<W("apt"), W("install"), W("vim"), W("sudo"), W("git")>>),
      List(<<W("sudo"), W("apt"), W("install"), W("sudo")>>),
      Str(JoinSp(<<W("sudo"), W("apt"), W("update"), AND,
                   W("sudo"), W("apt"), W("install"), <<"-", "y">>, W("sudo")>>)),
      Str(JoinSp(<<W("apt"), W("update"), AND, W("apt"), W("install"), W("sudo"),
                   <<"|", "|">>, W("apt"), W("install"), <<"-", "y">>, W("sudo")>>)),
      Str(JoinSp(<<W("apt"), W("update"), W("|"), W("tee"), W("log"), AND,
                   W("apt"), W("install"), W("sudo")>>)),
      Str(JoinSp(<<W("sudo"), <<"-", "H">>, <<"-", "n">>, W("apt"), W("install"),
                   <<"-", "-", "no", "-", "install", "-", "recommends">>,
                   <<"-", "y">>, W("sudo")>>)),
      Str(JoinSp(<<W("echo"), <<SQ, "sudo", SQ>>, AND, W("apt"), W("install"), W("sudo")>>)),
      Str(JoinSp(<<W("apt"), W("install"), <<"pseudo", "-", "sudo">>, W("sudo")>>)),
      Str(JoinSp(<<W("apt"), W("install"), <<"pseudo", "-", "sudo">>>>)),
      Str(JoinSp(<<W("apt"), W("install"), <<DQ, "sudo", DQ>>>>)),
      Str(JoinSp(<<W("apt"), W("remove"), W("sudo")>>)),
      Str(JoinSp(<<W("sudo"), W("sudo"), W("apt"), W("install"), W("sudo")>>)),
      Str(JoinSp(<<W("env"), W("apt"), W("install"), W("sudo")>>)),
      Str(<<"apt", SP, "install", SP, "sudo", NL, "ls">>),
      Str(<<SP>>) }

HelperSeqs(words) == UNION {[1..k -> words] : k \in 1..MaxHelperWords}

GuardCmds ==
    RichCmds \cup InstallCmds
    \cup {Str(JoinSp(ws)) : ws \in HelperSeqs(InstallWords)}
    \cup {List(ws) : ws \in HelperSeqs(InstallWords)}

\* words of the elevation decision
DecisionWords == {<<"sudo">>, <<"apt">>, <<"APT">>, <<"net">>, <<"user">>, <<"view">>,
                  <<"reg">>, <<"ls">>, <<"/opt/tool">>, <<"&", "&">>}

DecisionCmds ==
    { Str(JoinSp(<<W("net"), W("view"), AND, W("reg"), W("add")>>)),
      Str(JoinSp(<<W("ls"), AND, W("net"), W("view"), AND, W("format"), W("c:")>>)),
      Str(JoinSp(<<W("echo"), W("test"), AND, W("apt"), W("update")>>)),
      Str(JoinSp(<<W("ipconfig"), W("/release")>>)),
      Str(JoinSp(<<W("net"), W("user"), W("administrator")>>)),
      Str(JoinSp(<<W("NET"), W("USER"), W("administrator")>>)),
      Str(JoinSp(<<W("net"), W("localgroup")>>)),
      Str(JoinSp(<<W("net"), W("accounts")>>)),
      Str(JoinSp(<<W("net"), W("share")>>)),
      Str(JoinSp(<<W("ls"), W("|"), W("sc"), W("query")>>)),
      Str(JoinSp(<<W("bcdedit")>>)), Str(JoinSp(<<W("diskpart")>>)),
      Str(JoinSp(<<W("chkdsk"), W("c:")>>)), Str(JoinSp(<<W("format"), W("c:")>>)),
      Str(JoinSp(<<APTGET, W("update")>>)), Str(JoinSp(<<W("dnf"), W("update")>>)),
      Str(JoinSp(<<W("yum"), W("update")>>)), Str(JoinSp(<<W("pacman"), <<"-", "Syu">>>>)),
      Str(JoinSp(<<W("rpm"), <<"-", "i">>, W("x")>>)), Str(JoinSp(<<W("dpkg"), <<"-", "i">>, W("x")>>)),
      Str(JoinSp(<<W("systemctl"), W("restart"), W("x")>>)),
      Str(JoinSp(<<W("service"), W("x"), W("start")>>)),
      Str(JoinSp(<<W("mount"), W("/dev/sda")>>)), Str(JoinSp(<<W("umount"), W("/mnt")>>)),
      Str(JoinSp(<<W("fdisk"), <<"-", "l">>>>)), Str(JoinSp(<<W("mkfs"), W("/dev/sda")>>)),
      Str(JoinSp(<<W("cryptsetup"), W("open")>>)), Str(JoinSp(<<W("lvextend"), W("x")>>)),
      Str(JoinSp(<<W("resize2fs"), W("/dev/sda")>>)),
      Str(JoinSp(<<W("echo"), W("apt")>>)),
      Str(JoinSp(<<W("ls"), AND, W("ls"), AND, W("ls"), AND, W("/opt/tool")>>)),
      Str(<<"apt", SP, "update", NL, "apt", SP, "upgrade">>),
      Str(<<"ls", NL, "apt", SP, "update">>),
      Str(<<SP>>) }

NeedsSudoCmds ==
    RichCmds \cup DecisionCmds
    \cup {Str(JoinSp(ws)) : ws \in HelperSeqs(DecisionWords)}
    \cup {List(ws) : ws \in HelperSeqs(DecisionWords)}

\* parse_command(cmd)
ParseCommand ==
    /\ pc = "idle" /\ helper = NoHelper
    /\ \E c \in ParseCmds :
        helper' = [fn |-> "parse_command", cmd |-> c, result |-> parse_command(c)]
    /\ UNCHANGED <<host_sudo, os_name, _sudo_available, pc, args, avail, rewritten,
                   final_cmd, shell, kwargs, files, script_path, script, child, outcome>>
    /\ UNCHANGED moduleVars

\* is_installing_sudo(cmd)
IsInstallingSudo ==
    /\ pc = "idle" /\ helper = NoHelper
    /\ \E c \in GuardCmds :
        helper' = [fn |-> "is_installing_sudo", cmd |-> c,
                   result |-> is_installing_sudo(c)]
    /\ UNCHANGED <<host_sudo, os_name, _sudo_available, pc, args, avail, rewritten,
                   final_cmd, shell, kwargs, files, script_path, script, child, outcome>>
    /\ UNCHANGED moduleVars

\* strip_sudo(cmd)
StripSudo ==
    /\ pc = "idle" /\ helper = NoHelper
    /\ \E c \in GuardCmds :
        helper' = [fn |-> "strip_sudo", cmd |-> c, result |-> strip_sudo(c)]
    /\ UNCHANGED <<host_sudo, os_name, _sudo_available, pc, args, avail, rewritten,
                   final_cmd, shell, kwargs, files, script_path, script, child, outcome>>
    /\ UNCHANGED moduleVars

\* command_needs_sudo(cmd); its first statement calls is_sudo_available()
CommandNeedsSudo ==
    /\ pc = "idle" /\ helper = NoHelper
    /\ \E c \in NeedsSudoCmds :
        LET sudo_ok == is_sudo_available(_sudo_available, host_sudo)
        IN  /\ helper' = [fn |-> "command_needs_sudo", cmd |-> c, sudo_ok |-> sudo_ok,
                          result |-> command_needs_sudo(c, sudo_ok, os_name)]
            /\ _sudo_available' = Cached(sudo_ok)
    /\ UNCHANGED <<host_sudo, os_name, pc, args, avail, rewritten,
                   final_cmd, shell, kwargs, files, script_path, script, child, outcome>>
    /\ UNCHANGED moduleVars

\* is_sudo_available(); lookup records whether shutil.which was called
IsSudoAvailable ==
    /\ pc = "idle" /\ helper = NoHelper
    /\ helper' = [fn |-> "is_sudo_available",
                  lookup |-> Lookup(_sudo_available),
                  result |-> is_sudo_available(_sudo_available, host_sudo)]
    /\ _sudo_available' = Cached(is_sudo_available(_sudo_available, host_sudo))
    /\ UNCHANGED <<host_sudo, os_name, pc, args, avail, rewritten,
                   final_cmd, shell, kwargs, files, script_path, script, child, outcome>>
    /\ UNCHANGED moduleVars

\* the caller has read the result
HelperReturn ==
    /\ helper # NoHelper
    /\ helper' = NoHelper
    /\ UNCHANGED <<host_sudo, os_name, _sudo_available, pc, args, avail, rewritten,
                   final_cmd, shell, kwargs, files, script_path, script, child, outcome>>
    /\ UNCHANGED moduleVars

HelperNext ==
    \/ ParseCommand
    \/ IsInstallingSudo
    \/ StripSudo
    \/ CommandNeedsSudo
    \/ IsSudoAvailable
    \/ HelperReturn
    \/ ResetSudoCache
    \/ HostChange

HelperSpec == Init /\ [][HelperNext]_vars

----------------------------------------------------------------------------
(* run_commands *)

\* run_commands(group_name, commands) up to the loop over command.execute of
\* a Command whose shell validates on the host (lines 7-24)
RunCommands ==
    /\ mpc = "idle" /\ pc = "idle" /\ helper = NoHelper
    /\ mpc' = "loop"
    /\ entries_run' = 0
    /\ UNCHANGED <<host_sudo, os_name, _sudo_available, pc, args, avail, rewritten,
                   final_cmd, shell, kwargs, files, script_path, script, child, outcome,
                   helper, cmd_run, outputs, errors>>

\* the next entry of command.execute: lines 25-45, as far as run_subprocess's
\* try statement
NextEntry ==
    /\ mpc = "loop"
    /\ entries_run < MaxEntries
    /\ \E e \in Entries :
        /\ cmd_run' = AfterAppend(e)
        /\ CallWith(EntryArgs(e, os_name))
    /\ entries_run' = entries_run + 1
    /\ mpc' = "call"
    /\ UNCHANGED <<helper, outputs, errors>>

\* run_subprocess raised: the exception leaves run_commands
PropagateError ==
    /\ mpc = "call" /\ pc = "raised"
    /\ mpc' = "raised"
    /\ UNCHANGED <<host_sudo, os_name, _sudo_available, pc, args, avail, rewritten,
                   final_cmd, shell, kwargs, files, script_path, script, child, outcome,
                   helper, cmd_run, entries_run, outputs, errors>>

\* lines 46-49: the return code is not in valid_exit_codes
LogFailure ==
    /\ mpc = "call" /\ pc = "returned"
    /\ ~\E i \in 1..Len(valid_exit_codes(cmd_run)) :
           valid_exit_codes(cmd_run)[i] = outcome.returncode
    /\ errors' = Append(errors, args.cmd)
    /\ mpc' = "loop"
    /\ UNCHANGED <<host_sudo, os_name, _sudo_available, pc, args, avail, rewritten,
                   final_cmd, shell, kwargs, files, script_path, script, child, outcome,
                   helper, cmd_run, entries_run, outputs>>

\* lines 50-53: the return code is in valid_exit_codes
SaveOutput ==
    /\ mpc = "call" /\ pc = "returned"
    /\ \E i \in 1..Len(valid_exit_codes(cmd_run)) :
          valid_exit_codes(cmd_run)[i] = outcome.returncode
    /\ outputs' = save_output(outputs, cmd_run, outcome.stdout)
    /\ mpc' = "loop"
    /\ UNCHANGED <<host_sudo, os_name, _sudo_available, pc, args, avail, rewritten,
                   final_cmd, shell, kwargs, files, script_path, script, child, outcome,
                   helper, cmd_run, entries_run, errors>>

\* command.execute is exhausted: run_commands returns
EndLoop ==
    /\ mpc = "loop"
    /\ mpc' = "done"
    /\ UNCHANGED <<host_sudo, os_name, _sudo_available, pc, args, avail, rewritten,
                   final_cmd, shell, kwargs, files, script_path, script, child, outcome,
                   helper, cmd_run, entries_run, outputs, errors>>

ModuleNext ==
    \/ RunCommands
    \/ NextEntry
    \/ Materialise
    \/ SpawnRejected
    \/ SpawnChild
    \/ Finally
    \/ PropagateError
    \/ LogFailure
    \/ SaveOutput
    \/ EndLoop
    \/ HostChange

ModuleSpec == Init /\ [][ModuleNext]_vars

----------------------------------------------------------------------------
(* run_subprocess with shell_type set on a host whose file system may      *)
(* refuse an operation on the temporary script                             *)

\* the calls that write a script
ScriptArgs ==
    [cmd : ExecCmds, interactive : {FALSE}, input : {NoneVal}, shell : BOOLEAN,
     raise_on_error : BOOLEAN, shell_type : ShellTypes, kwargs : {NoKwargs}]

\* the mode tempfile gives the file it creates
TmpMode == "0600"

\* the statements of lines 405-408 that may raise, the file being created
FailingStages == {"write", "flush", "chmod"}

\* the local script_path when the statement at stage raises: it is bound at
\* line 407, after write and flush
PathBoundAt(stage, path) == IF stage = "chmod" THEN path ELSE "unset"

\* what the file holds when the statement at stage raises
ContentsAt(stage, c) ==
    CASE stage = "write" -> {<<>>}
      [] stage = "flush" -> {<<>>, ScriptContent(c)}
      [] stage = "chmod" -> {ScriptContent(c)}

FaultCall ==
    /\ pc = "idle"
    /\ \E a \in ScriptArgs : CallWith(a)
    /\ UNCHANGED <<helper, moduleVars>>

\* NamedTemporaryFile has created the file (delete=False) and script.write,
\* script.flush or os.chmod raises: the with block closes the file and the
\* exception reaches "except Exception" (lines 402-408, 438-440)
MaterialiseFails ==
    /\ pc = "try"
    /\ args.shell_type # "None"
    /\ script_path = "unset"
    /\ \E path \in TmpNames \ {f.path : f \in files}, stage \in FailingStages :
        /\ \E content \in ContentsAt(stage, final_cmd) :
              files' = files \cup {[path |-> path, content |-> content, mode |-> TmpMode]}
        /\ script' = path
        /\ script_path' = PathBoundAt(stage, path)
        /\ outcome' = [kind |-> "OSError", stage |-> stage]
    /\ pc' = "finally"
    /\ UNCHANGED <<host_sudo, os_name, _sudo_available, args, avail, rewritten,
                   final_cmd, shell, kwargs, child, helper>>
    /\ UNCHANGED moduleVars

\* finally: os.unlink(script_path) raises; the exception leaves the call in
\* place of the return value or of the exception in flight (lines 442-444)
FinallyUnlinkFails ==
    /\ pc = "finally"
    /\ args.shell_type # "None" /\ script_path # "unset"
    /\ outcome' = [kind |-> "OSError", stage |-> "unlink"]
    /\ pc' = "raised"
    /\ UNCHANGED <<host_sudo, os_name, _sudo_available, args, avail, rewritten,
                   final_cmd, shell, kwargs, files, script_path, script, child,
                   helper>>
    /\ UNCHANGED moduleVars

FaultNext ==
    \/ FaultCall
    \/ Materialise
    \/ MaterialiseFails
    \/ SpawnRejected
    \/ SpawnChild
    \/ Finally
    \/ FinallyUnlinkFails
    \/ Return

FaultSpec == Init /\ [][FaultNext]_vars

----------------------------------------------------------------------------
(* strip_sudo called directly next to calls of run_subprocess *)

\* run_subprocess called once the result of strip_sudo has been read
CallAfterHelper == helper = NoHelper /\ Call

StripNext ==
    \/ StripSudo
    \/ HelperReturn
    \/ CallAfterHelper
    \/ Materialise
    \/ SpawnRejected
    \/ SpawnChild
    \/ Finally
    \/ Return
    \/ HostChange

StripSpec == Init /\ [][StripNext]_vars

----------------------------------------------------------------------------
(* Vocabulary of the properties *)

\* a call is in progress or has just ended: args, avail and rewritten are
\* those of the call
InCall == pc # "idle"

\* the chain segments the tokenizer finds in a command (empty ones dropped)
Segments(c) == SelectSeq(parse_command(c).parts, LAMBDA part : part # <<>>)

\* the chain operators that stand between two segments
Operators(c) ==
    LET n == Len(Segments(c))
    IN  SubSeq(parse_command(c).separators, 1, IF n > 0 THEN n - 1 ELSE 0)

\* the first word of seg that is neither the leading sudo nor one of the
\* flags that follow it
FirstKept(seg) ==
    CHOOSE k \in 2..(Len(seg) + 1) :
        /\ \A j \in 2..(k - 1) : seg[j][1] = "-"
        /\ k <= Len(seg) => (seg[k] = <<>> \/ seg[k][1] # "-")

WithoutSudo(seg) ==
    IF Lower(seg[1]) = <<"sudo">> THEN SubSeq(seg, FirstKept(seg), Len(seg)) ELSE seg

WithSudo(seg) ==
    IF Lower(seg[1]) # <<"sudo">> /\ command_needs_sudo(List(seg), TRUE, "posix")
    THEN <<<<"sudo">>>> \o seg
    ELSE seg

\* segments and operators written out in order: s1 op1 s2 op2 ... sn
Chain(segs, ops) ==
    Flatten([i \in 1..Len(segs) |-> IF i = 1 THEN segs[i] ELSE <<ops[i - 1]>> \o segs[i]])

\* the command made of the rewritten segments, in the type of the input
Expected(c, F(_)) ==
    LET segs == [i \in 1..Len(Segments(c)) |-> F(Segments(c)[i])]
    IN  IF c.kind = "list" THEN List(Chain(segs, <<>>))
        ELSE Str(JoinSp(Chain(segs, Operators(c))))

Same(c, d) == c.kind = d.kind /\ c.v = d.v

AptUpdateAndInstallVim ==
    Str(JoinSp(<<W("apt"), W("update"), AND, W("apt"), W("install"), W("vim")>>))

SudoAptUpdateAndSudoInstallVim ==
    Str(JoinSp(<<W("sudo"), W("apt"), W("update"), AND,
                 W("sudo"), W("apt"), W("install"), W("vim")>>))

AptUpdateAndSudoInstallVim ==
    Str(JoinSp(<<W("apt"), W("update"), AND, W("sudo"), W("apt"), W("install"), W("vim")>>))

----------------------------------------------------------------------------
(* C1: for every command that installs sudo itself (is_installing_sudo is  *)
(* true) the command run_subprocess goes on to execute has the segments of *)
(* the input unchanged, on Unix and on Windows: no sudo added, none        *)
(* removed.                                                                *)
SelfInstallUnchanged ==
    (InCall /\ is_installing_sudo(args.cmd)) =>
        /\ rewritten.kind = args.cmd.kind
        /\ Segments(rewritten) = Segments(args.cmd)

----------------------------------------------------------------------------
(* C2: on a Unix host on which is_sudo_available() answers true, every     *)
(* chain segment is rewritten on its own: a segment that does not start    *)
(* with sudo and needs elevation gets sudo as its new first word, every    *)
(* other word and segment is unchanged, the operators stay in order        *)
(* between the segments; a list stays a list, a string becomes the words   *)
(* joined by single spaces.                                                *)
ChainRewriteUnix ==
    (InCall /\ os_name = "posix" /\ avail) =>
        /\ Same(rewritten, Expected(args.cmd, WithSudo))
        /\ Same(args.cmd, AptUpdateAndInstallVim)
              => Same(rewritten, SudoAptUpdateAndSudoInstallVim)

ChainRewriteUnixWitness ==
    /\ InCall /\ os_name = "posix" /\ avail
    /\ Same(args.cmd, AptUpdateAndInstallVim)
    /\ Same(rewritten, SudoAptUpdateAndSudoInstallVim)

----------------------------------------------------------------------------
(* C3: when is_sudo_available() answers false, command_needs_sudo is false *)
(* for the command and for each of its segments, and run_subprocess on     *)
(* Unix adds sudo to no segment.                                           *)
NoSudoWhenUnavailable ==
    (InCall /\ ~avail) =>
        /\ ~command_needs_sudo(args.cmd, avail, os_name)
        /\ \A i \in 1..Len(Segments(args.cmd)) :
              ~command_needs_sudo(List(Segments(args.cmd)[i]), avail, os_name)
        /\ os_name = "posix" =>
              Same(rewritten, Expected(args.cmd, LAMBDA seg : seg))

NoSudoWhenUnavailableWitness ==
    /\ InCall /\ ~avail /\ os_name = "posix"
    /\ Same(args.cmd, AptUpdateAndInstallVim)
    /\ Same(rewritten, AptUpdateAndInstallVim)

----------------------------------------------------------------------------
(* C4: on Windows every segment that starts with sudo loses that sudo and  *)
(* the flag words (starting with -) that follow it, no segment gains a     *)
(* sudo, and the other words and the operators between the segments keep   *)
(* their order.                                                            *)
WindowsStrip ==
    (InCall /\ os_name = "nt") =>
        /\ Same(rewritten, Expected(args.cmd, WithoutSudo))
        /\ Same(args.cmd, AptUpdateAndSudoInstallVim)
              => Same(rewritten, AptUpdateAndInstallVim)
        /\ Same(args.cmd, List(<<W("sudo"), W("apt"), W("update")>>))
              => Same(rewritten, List(<<W("apt"), W("update")>>))

WindowsStripWitness ==
    /\ InCall /\ os_name = "nt"
    /\ Same(args.cmd, AptUpdateAndSudoInstallVim)
    /\ Same(rewritten, AptUpdateAndInstallVim)

----------------------------------------------------------------------------
(* C5: on Unix a segment that already begins with sudo is left unchanged,  *)
(* and rewriting the rewritten command yields it again: no second sudo.    *)
RewriteIdempotentUnix ==
    (InCall /\ os_name = "posix") =>
        /\ Len(Segments(rewritten)) = Len(Segments(args.cmd))
        /\ \A i \in 1..Len(Segments(args.cmd)) :
              LET seg == Segments(args.cmd)[i]
              IN  Lower(seg[1]) = <<"sudo">> => Segments(rewritten)[i] = seg
        /\ Same(Rewrite(rewritten, avail, os_name), rewritten)

RewriteIdempotentUnixWitness ==
    /\ InCall /\ os_name = "posix" /\ avail
    /\ Same(args.cmd, AptUpdateAndSudoInstallVim)
    /\ Same(rewritten, SudoAptUpdateAndSudoInstallVim)

----------------------------------------------------------------------------
(* C6: when a call with shell_type set has created its temporary script,   *)
(* the script no longer exists once the call has returned or raised: after *)
(* a child that exited zero, after one that exited non-zero (raised or     *)
(* returned) and after a spawn that failed.                                *)
TempScriptRemoved ==
    (Done /\ args.shell_type # "None" /\ script_path # "unset") =>
        \A f \in files : f.path # script_path

TempScriptRemovedWitness ==
    /\ pc = "raised" /\ args.shell_type # "None" /\ script_path # "unset"
    /\ outcome.kind = "CalledProcessError"
    /\ files = {}

----------------------------------------------------------------------------
(* C7: whenever shell_type is set, whatever shell was passed, the          *)
(* temporary script holds the rewritten command text verbatim and is       *)
(* executable, and the process is started through the shell with the       *)
(* command "<shell_type command prefix> <script path>".                    *)
ScriptHoldsCommandVerbatim ==
    \A f \in files :
        (pc \in {"try", "finally"} /\ f.path = script_path) =>
            /\ rewritten.kind = "str" => f.content = rewritten.v
            /\ rewritten.kind = "list" => f.content = JoinSp(rewritten.v)
            /\ f.mode = "0755"
            /\ shell
            /\ (child.started => child.shell)
            /\ final_cmd.kind = "str"
            /\ final_cmd.v = get_shell_command(args.shell_type) \o <<SP, script_path>>

----------------------------------------------------------------------------
(* C8: a spawn failure is raised whatever raise_on_error is; a child that  *)
(* ran and exited non-zero is raised exactly when raise_on_error is set    *)
(* and is otherwise returned as a result carrying the exit code.           *)
SpawnFailureRaisedExitCodeByFlag ==
    Done =>
        /\ outcome.kind = "OSError" => pc = "raised"
        /\ (child.started /\ child.rc # 0) =>
              /\ pc = "raised" <=> args.raise_on_error
              /\ ~args.raise_on_error =>
                    /\ outcome.kind = "CompletedProcess"
                    /\ outcome.returncode = child.rc

SpawnFailureRaisedExitCodeByFlagWitness ==
    /\ pc = "returned" /\ child.started /\ child.rc = 1
    /\ ~args.raise_on_error
    /\ outcome.kind = "CompletedProcess" /\ outcome.returncode = 1

----------------------------------------------------------------------------
(* C9: a non-empty input payload in captured (non-interactive) mode: the   *)
(* child is started with a writable stdin, the payload is written to it,   *)
(* with a newline appended when it is a string that does not end in one,   *)
(* and the call returns the captured result (unless the spawn fails or a   *)
(* non-zero exit is raised on request).                                    *)
InputPayloadWritten ==
    (/\ Done /\ outcome.kind \in {"CompletedProcess", "TypeError", "ValueError"}
     /\ ~args.interactive /\ Truthy(args.input)
     /\ args.kwargs = NoKwargs) =>
        /\ pc = "returned"
        /\ child.started
        /\ child.stdin = "PIPE"
        /\ child.payload.kind = "str"
        /\ child.payload.v = IF args.input.v[Len(args.input.v)] = NL
                             THEN args.input.v ELSE args.input.v \o <<NL>>
        /\ outcome.captured

----------------------------------------------------------------------------
(* C10: stdio is selected by the mode alone.  Interactive: stdout and      *)
(* stderr inherited, stdin writable.  Not interactive and no input: stdout *)
(* and stderr captured, stdin unconnected.  These are the settings passed  *)
(* to the spawn also when the caller passes its own stdout, stderr or      *)
(* stdin.                                                                  *)
StdioByModeAlone ==
    pc \in {"try", "finally"} =>
        /\ args.interactive =>
              /\ kwargs.stdout = "None" /\ kwargs.stderr = "None"
              /\ \/ kwargs.stdin = "PIPE"
                 \/ kwargs.stdin = "absent" /\ kwargs.input.kind = "str"
        /\ (~args.interactive /\ args.input = NoneVal) =>
              /\ kwargs.stdout = "PIPE" /\ kwargs.stderr = "PIPE"
              /\ kwargs.stdin = "None"

----------------------------------------------------------------------------
(* C11: for every single-line string, parse_command returns a non-empty    *)
(* list of segments and one operator fewer than segments: every recorded   *)
(* operator lies between two segments, none is recorded for a leading or a *)
(* trailing position.                                                      *)
OperatorsBetweenSegments ==
    (/\ helper.fn = "parse_command"
     /\ helper.cmd.kind = "str" /\ ~Contains(helper.cmd.v, NL)) =>
        /\ Len(helper.result.parts) >= 1
        /\ Len(helper.result.separators) = Len(helper.result.parts) - 1

----------------------------------------------------------------------------
(* C12: in parse_command of a single-line string, inside a span opened by  *)
(* ' or " and closed by the same character whitespace does not end the     *)
(* word and &&, || and | are not operators, and the token holds the quoted *)
(* text exactly as written, both quote characters included; outside quotes *)
(* whitespace ends a word and only a whole word equal to &&, || or | is a  *)
(* chain operator.                                                         *)

\* the words of a text as the claim reads it: cut at whitespace outside
\* quotes, every character kept; q is the quote character that is open
RECURSIVE WordsAsWritten(_, _, _, _)
WordsAsWritten(s, i, cur, q) ==
    IF i > Len(s) THEN (IF cur = <<>> THEN <<>> ELSE <<cur>>)
    ELSE IF q = "None" /\ IsSpace(s[i])
         THEN (IF cur = <<>> THEN <<>> ELSE <<cur>>) \o WordsAsWritten(s, i + 1, <<>>, q)
         ELSE WordsAsWritten(s, i + 1, Append(cur, s[i]),
                             IF q = "None" /\ s[i] \in {SQ, DQ} THEN s[i]
                             ELSE IF q = s[i] THEN "None" ELSE q)

\* every quote that opens a span is closed
RECURSIVE QuotesClosed(_, _, _)
QuotesClosed(s, i, q) ==
    IF i > Len(s) THEN q = "None"
    ELSE QuotesClosed(s, i + 1, IF q = "None" /\ s[i] \in {SQ, DQ} THEN s[i]
                                ELSE IF q = s[i] THEN "None" ELSE q)

QuotedTextKept ==
    (/\ helper.fn = "parse_command"
     /\ helper.cmd.kind = "str" /\ ~Contains(helper.cmd.v, NL)
     /\ QuotesClosed(helper.cmd.v, 1, "None")) =>
        LET written == WordsAsWritten(helper.cmd.v, 1, <<>>, "None")
        IN  /\ Flatten(helper.result.parts) = SelectSeq(written, LAMBDA w : w \notin ChainOps)
            /\ \A i \in 1..Len(helper.result.separators) :
                  helper.result.separators[i] \in ChainOps

----------------------------------------------------------------------------
----------------------------------------------------------------------------
(* C14: for every single-line string without chain operators, joining the  *)
(* tokens parse_command returns with single spaces gives a string that     *)
(* parse_command tokenizes to the same segment: tokenize, re-join,         *)
(* re-tokenize is a fixed point.                                           *)
RejoinRetokenizeFixedPoint ==
    (/\ helper.fn = "parse_command"
     /\ helper.cmd.kind = "str" /\ ~Contains(helper.cmd.v, NL)
     /\ \A i \in 1..Len(WordsAsWritten(helper.cmd.v, 1, <<>>, "None")) :
           WordsAsWritten(helper.cmd.v, 1, <<>>, "None")[i] \notin ChainOps) =>
        /\ Len(helper.result.parts) = 1
        /\ helper.result.separators = <<>>
        /\ LET again == parse_command(Str(JoinSp(helper.result.parts[1])))
           IN  /\ again.parts = helper.result.parts
               /\ again.separators = <<>>

RejoinRetokenizeFixedPointWitness ==
    /\ helper.fn = "parse_command"
    /\ helper.cmd.kind = "str"
    /\ helper.cmd.v = <<"echo", SP, SQ, "a", SP, SP, SP, "b", SQ>>
    /\ helper.result.parts = << <<W("echo"), <<SQ, "a", SP, "b", SQ>>>> >>

----------------------------------------------------------------------------
(* C15: is_installing_sudo(cmd) is true exactly when some chain segment,   *)
(* after a leading sudo and the flag words following it are skipped,       *)
(* begins with pacman -S or with apt, apt-get, yum, dnf or zypper followed *)
(* by install, and one of its later non-flag words, with any =version      *)
(* suffix removed, equals sudo.  It is false for empty input, for an empty *)
(* list, and when a package name merely contains sudo (pseudo-sudo).       *)
(* Names are compared without regard to case, -S as written.               *)

\* the word without its =version suffix
VersionRemoved(w) ==
    IF \E i \in 1..Len(w) : w[i] = "="
    THEN SubSeq(w, 1, (CHOOSE i \in 1..Len(w) :
                          w[i] = "=" /\ \A j \in 1..(i - 1) : w[j] # "=") - 1)
    ELSE w

\* seg, read from its k-th word, is "<manager> <install verb> ... sudo ..."
InstallsSudoFrom(seg, k) ==
    /\ k + 1 <= Len(seg)
    /\ \/ Lower(seg[k]) = <<"pacman">> /\ seg[k + 1] = <<"-", "S">>
       \/ /\ Lower(seg[k]) \in {<<"apt">>, <<"apt", "-", "get">>, <<"yum">>,
                                <<"dnf">>, <<"zypper">>}
          /\ Lower(seg[k + 1]) = <<"install">>
    /\ \E j \in (k + 2)..Len(seg) :
          /\ seg[j][1] # "-"
          /\ Lower(VersionRemoved(seg[j])) = <<"sudo">>

InstallsSudoSegment(seg) ==
    InstallsSudoFrom(seg, IF Lower(seg[1]) = <<"sudo">> THEN FirstKept(seg) ELSE 1)

SelfInstallDetected ==
    helper.fn = "is_installing_sudo" =>
        /\ helper.result <=> \E i \in 1..Len(Segments(helper.cmd)) :
                                InstallsSudoSegment(Segments(helper.cmd)[i])
        /\ helper.cmd.v = <<>> => ~helper.result
        /\ Same(helper.cmd, Str(JoinSp(<<W("apt"), W("install"), <<"pseudo", "-", "sudo">>>>)))
              => ~helper.result

SelfInstallDetectedWitness ==
    /\ helper.fn = "is_installing_sudo"
    /\ Same(helper.cmd, Str(JoinSp(<<W("sudo"), <<"-", "H">>, W("apt"), W("install"),
                                     <<"sudo", "=", "1.8">>>>)))
    /\ helper.result

----------------------------------------------------------------------------
(* C16: strip_sudo(cmd) returns cmd unchanged when is_installing_sudo(cmd) *)
(* is true; otherwise it removes a leading sudo and the flag words that    *)
(* follow it from every chain segment, keeps the remaining words and the   *)
(* chain operators in their original order, and returns the type of the    *)
(* input: a list for a list, a single-space-joined string for a string.    *)
StripSudoContract ==
    helper.fn = "strip_sudo" =>
        /\ is_installing_sudo(helper.cmd) => Same(helper.result, helper.cmd)
        /\ ~is_installing_sudo(helper.cmd) =>
              Same(helper.result, Expected(helper.cmd, WithoutSudo))
        /\ Same(helper.cmd, AptUpdateAndSudoInstallVim)
              => Same(helper.result, AptUpdateAndInstallVim)
        /\ Same(helper.cmd, List(<<W("sudo"), W("apt"), W("update")>>))
              => Same(helper.result, List(<<W("apt"), W("update")>>))

StripSudoContractWitness ==
    /\ helper.fn = "strip_sudo"
    /\ Same(helper.cmd, Str(<<SP, "sudo", SP, SP, "-", "H", SP, "apt", TAB, "update", SP>>))
    /\ Same(helper.result, Str(<<"apt", SP, "update">>))

----------------------------------------------------------------------------
(* C17: is_sudo_available looks the host up only when the cache is empty.  *)
(* A call that finds the cache empty performs the lookup, returns the      *)
(* host's current state and fills the cache with it; a call that finds the *)
(* cache filled returns the cached value without a lookup, whatever the    *)
(* host is now; a filled cache changes only by reset_sudo_cache, which     *)
(* empties it, so the first call after it looks the host up afresh.        *)
CachedUntilReset ==
    [][ /\ IsSudoAvailable =>
              /\ _sudo_available = "None" =>
                    /\ helper'.lookup
                    /\ helper'.result = host_sudo
                    /\ _sudo_available' = (IF host_sudo THEN "True" ELSE "False")
              /\ _sudo_available # "None" =>
                    /\ ~helper'.lookup
                    /\ helper'.result = (_sudo_available = "True")
                    /\ _sudo_available' = _sudo_available
        /\ (_sudo_available # "None" /\ _sudo_available' # _sudo_available) =>
              /\ ResetSudoCache
              /\ _sudo_available' = "None"
      ]_vars

\* a call has answered from the cache although the host has changed since
CachedUntilResetWitness ==
    /\ helper.fn = "is_sudo_available"
    /\ ~helper.lookup
    /\ _sudo_available # "None"
    /\ helper.result # host_sudo

----------------------------------------------------------------------------
(* C18: on a Unix host with sudo available and no segment starting with    *)
(* sudo, command_needs_sudo(cmd) is true exactly when some segment's base  *)
(* command name is in the fixed privileged set, or is a path that exists   *)
(* and is not executable by the user, or is the cross-tested Windows admin *)
(* command (net user); it is false for empty input.  Command names are     *)
(* compared without regard to case.                                        *)

PrivilegedNames ==
    {<<"apt">>, <<"apt", "-", "get">>, <<"dnf">>, <<"yum">>, <<"pacman">>, <<"rpm">>,
     <<"dpkg">>, <<"systemctl">>, <<"service">>, <<"mount">>, <<"umount">>, <<"fdisk">>,
     <<"mkfs">>, <<"cryptsetup">>, <<"lvextend">>, <<"resize2fs">>}

NoSegmentStartsWithSudo(c) ==
    \A i \in 1..Len(Segments(c)) : Lower(Segments(c)[i][1]) # <<"sudo">>

PrivilegedOnUnix(seg) ==
    \/ Lower(seg[1]) \in PrivilegedNames
    \/ seg[1] \in NonExecutablePaths
    \/ Len(seg) >= 2 /\ Lower(seg[1]) = <<"net">> /\ Lower(seg[2]) = <<"user">>

NeedsSudoOnUnix ==
    (/\ helper.fn = "command_needs_sudo"
     /\ os_name = "posix" /\ helper.sudo_ok
     /\ NoSegmentStartsWithSudo(helper.cmd)) =>
        /\ helper.result <=> \E i \in 1..Len(Segments(helper.cmd)) :
                                PrivilegedOnUnix(Segments(helper.cmd)[i])
        /\ helper.cmd.v = <<>> => ~helper.result

NeedsSudoOnUnixWitness ==
    /\ helper.fn = "command_needs_sudo"
    /\ os_name = "posix" /\ helper.sudo_ok
    /\ Same(helper.cmd, Str(JoinSp(<<W("echo"), W("test"), AND, W("apt"), W("update")>>)))
    /\ helper.result

----------------------------------------------------------------------------
(* C19: on a Windows host with sudo reported available and no segment      *)
(* starting with sudo, command_needs_sudo(cmd) is true exactly when some   *)
(* segment's base command is sc, reg, bcdedit, diskpart, chkdsk or format, *)
(* or is net followed by user, localgroup, accounts or share; it is never  *)
(* true for a command that is only in the Unix privileged set.             *)

AdminOnWindows(seg) ==
    \/ Lower(seg[1]) \in {<<"sc">>, <<"reg">>, <<"bcdedit">>, <<"diskpart">>,
                          <<"chkdsk">>, <<"format">>}
    \/ /\ Len(seg) >= 2 /\ Lower(seg[1]) = <<"net">>
       /\ Lower(seg[2]) \in {<<"user">>, <<"localgroup">>, <<"accounts">>, <<"share">>}

NeedsSudoOnWindows ==
    (/\ helper.fn = "command_needs_sudo"
     /\ os_name = "nt" /\ helper.sudo_ok
     /\ NoSegmentStartsWithSudo(helper.cmd)) =>
        /\ helper.result <=> \E i \in 1..Len(Segments(helper.cmd)) :
                                AdminOnWindows(Segments(helper.cmd)[i])
        /\ (\A i \in 1..Len(Segments(helper.cmd)) :
               Lower(Segments(helper.cmd)[i][1]) \in PrivilegedNames) => ~helper.result

----------------------------------------------------------------------------
(* C20: for every entry run_commands executes, an exit code in the         *)
(* accepted set (the configured valid_exit_codes together with 0; {0} when *)
(* none is configured) is a success: run_commands does not raise and,      *)
(* when saved_output_name is set, stores the captured stdout under that    *)
(* name with the trailing newline stripped.  For an exit code outside the  *)
(* set it stores nothing, logs the failure and goes on to the next entry.  *)

\* the accepted set of an entry
AcceptedCodes(e) ==
    {0} \cup (IF e.valid_exit_codes.kind = "list"
              THEN {e.valid_exit_codes.v[i] : i \in 1..Len(e.valid_exit_codes.v)}
              ELSE {})

\* the text without the newlines at its end
RECURSIVE WithoutTrailingNewlines(_)
WithoutTrailingNewlines(v) ==
    IF v # <<>> /\ v[Len(v)] = NL
    THEN WithoutTrailingNewlines(SubSeq(v, 1, Len(v) - 1))
    ELSE v

ExitCodeAcceptance ==
    [][ (mpc = "call" /\ mpc' # "call" /\ child.started) =>
            /\ child.rc \in AcceptedCodes(cmd_run) =>
                  /\ mpc' = "loop"
                  /\ cmd_run.saved_output_name # "None" =>
                        /\ outcome.kind = "CompletedProcess"
                        /\ outputs'[cmd_run.saved_output_name] =
                              Str(WithoutTrailingNewlines(outcome.stdout.v))
            /\ child.rc \notin AcceptedCodes(cmd_run) =>
                  /\ outputs' = outputs
                  /\ errors' = Append(errors, args.cmd)
                  /\ mpc' = "loop"
      ]_vars

----------------------------------------------------------------------------
(* C21: when the command is malformed (a chain operator at the start or    *)
(* the end of the command or directly after another operator, unbalanced   *)
(* quotes, or an empty command) run_subprocess spawns no process and the   *)
(* call ends by raising an error to its caller; no part of the malformed   *)
(* input is executed.                                                      *)

\* a chain operator stands first, last or directly after another operator
OperatorMisplaced(ws) ==
    /\ ws # <<>>
    /\ \/ ws[1] \in ChainOps
       \/ ws[Len(ws)] \in ChainOps
       \/ \E i \in 1..(Len(ws) - 1) : ws[i] \in ChainOps /\ ws[i + 1] \in ChainOps

\* a malformed command: an empty list, or a single-line string that is
\* empty, has an open quote or a misplaced operator
Malformed(c) ==
    IF c.kind = "list" THEN c.v = <<>>
    ELSE /\ ~Contains(c.v, NL)
         /\ \/ WordsAsWritten(c.v, 1, <<>>, "None") = <<>>
            \/ ~QuotesClosed(c.v, 1, "None")
            \/ OperatorMisplaced(WordsAsWritten(c.v, 1, <<>>, "None"))

MalformedNeverRuns ==
    (InCall /\ Malformed(args.cmd)) =>
        /\ ~child.started
        /\ Done => pc = "raised"

----------------------------------------------------------------------------
(* C22: when a textual command is run with shell unset (and no             *)
(* shell_type), the argv handed to the child is the token sequence a shell *)
(* would produce: the tokens parse_command finds in the final command      *)
(* (same word boundaries, same tokens), and the chain operator that        *)
(* follows the first segment is not passed to the first command as an      *)
(* ordinary argument.                                                      *)
ArgvAsShellTokens ==
    (/\ pc \in {"finally", "returned", "raised"} /\ child.started
     /\ args.cmd.kind = "str" /\ ~args.shell /\ args.shell_type = "None") =>
        /\ child.argv.kind = "list"
        /\ Operators(rewritten) = <<>> =>
              child.argv.v = Flatten(Segments(rewritten))
        /\ Operators(rewritten) # <<>> =>
              LET n == Len(Segments(rewritten)[1])
              IN  n + 1 <= Len(child.argv.v) =>
                     child.argv.v[n + 1] # Operators(rewritten)[1]

----------------------------------------------------------------------------
(* C23: a string whose newlines are all backslash line-continuations is    *)
(* tokenized by parse_command as a single-line command: every              *)
(* backslash-newline becomes one space, runs of whitespace are collapsed,  *)
(* and the words on both sides of the continuation are separate tokens; it *)
(* is not kept as one opaque block.                                        *)

\* s has a newline, and every newline of s follows a backslash
AllNewlinesContinued(s) ==
    /\ Contains(s, NL)
    /\ \A i \in 1..Len(s) : s[i] = NL => (i > 1 /\ s[i - 1] = BS)

\* s with every backslash-newline replaced by one space
RECURSIVE ContinuationsAsSpaces(_)
ContinuationsAsSpaces(s) ==
    IF s = <<>> THEN <<>>
    ELSE IF Len(s) >= 2 /\ s[1] = BS /\ s[2] = NL
         THEN <<SP>> \o ContinuationsAsSpaces(SubSeq(s, 3, Len(s)))
         ELSE <<s[1]>> \o ContinuationsAsSpaces(Tail(s))

ContinuationsTokenized ==
    (/\ helper.fn = "parse_command"
     /\ helper.cmd.kind = "str" /\ AllNewlinesContinued(helper.cmd.v)) =>
        /\ helper.result.parts # << <<helper.cmd.v>> >>
        /\ helper.result = parse_command(Str(ContinuationsAsSpaces(helper.cmd.v)))

----------------------------------------------------------------------------
(* C24: when a call with shell_type set has run the child to completion    *)
(* and the removal of the temporary script then fails (the script is still *)
(* there when the call ends), the call ends with the child's outcome: it   *)
(* returns the child's result, or raises the child's own error when a      *)
(* non-zero exit is to be raised; the removal failure replaces neither.    *)
UnlinkFailureKeepsOutcome ==
    (/\ Done /\ args.shell_type # "None" /\ child.started
     /\ script_path # "unset" /\ \E f \in files : f.path = script_path) =>
        /\ (child.rc = 0 \/ ~args.raise_on_error) =>
              /\ pc = "returned"
              /\ outcome.kind = "CompletedProcess"
              /\ outcome.returncode = child.rc
        /\ (child.rc # 0 /\ args.raise_on_error) =>
              /\ pc = "raised"
              /\ outcome.kind = "CalledProcessError"
              /\ outcome.returncode = child.rc

----------------------------------------------------------------------------
(* C30: when writing, flushing or chmod of the script fails after the      *)
(* temporary file has been created, run_subprocess spawns no process and   *)
(* the file it created no longer exists when the call raises.              *)
FailedScriptRemoved ==
    (/\ Done /\ outcome.kind = "OSError" /\ "stage" \in DOMAIN outcome
     /\ outcome.stage \in FailingStages) =>
        /\ pc = "raised"
        /\ ~child.started
        /\ \A f \in files : f.path # script

----------------------------------------------------------------------------
(* C25: when a command that installs sudo has been executed successfully   *)
(* on a Unix host on which sudo was not available and now is, the          *)
(* availability cache is invalidated: the next elevation decision sees     *)
(* sudo as available and a privileged command (apt update) is elevated.    *)
InstallInvalidatesCache ==
    (/\ pc = "returned" /\ os_name = "posix"
     /\ is_installing_sudo(args.cmd) /\ ~avail
     /\ child.started /\ child.rc = 0
     /\ host_sudo) =>
        /\ _sudo_available = "None"
        /\ is_sudo_available(_sudo_available, host_sudo)
        /\ command_needs_sudo(Str(JoinSp(<<W("apt"), W("update")>>)),
                              is_sudo_available(_sudo_available, host_sudo), os_name)

----------------------------------------------------------------------------
(* C26: on a Unix host with sudo available (and no segment starting with   *)
(* sudo) command_needs_sudo flags every command that is flagged on         *)
(* Windows: sc, reg, bcdedit, diskpart, chkdsk, format, and net with user, *)
(* localgroup, accounts or share; a Windows non-admin command such as      *)
(* ipconfig /release is not flagged.                                       *)
WindowsAdminFlaggedOnUnix ==
    (/\ helper.fn = "command_needs_sudo"
     /\ os_name = "posix" /\ helper.sudo_ok
     /\ NoSegmentStartsWithSudo(helper.cmd)) =>
        /\ (\E i \in 1..Len(Segments(helper.cmd)) :
               AdminOnWindows(Segments(helper.cmd)[i])) => helper.result
        /\ Same(helper.cmd, Str(JoinSp(<<W("ipconfig"), W("/release")>>)))
              => ~helper.result

----------------------------------------------------------------------------
(* C27: on a Unix host with sudo available, for every string command run   *)
(* with shell unset: no segment of the argv the child receives begins with *)
(* a program name of the privileged set; a segment whose program is        *)
(* privileged begins with sudo, whether or not the name was quoted in the  *)
(* command ("apt" update is executed as sudo apt update).                  *)

\* position j of argv begins a segment
BeginsSegment(argv, j) == j = 1 \/ argv[j - 1] \in ChainOps

PrivilegedProgramElevated ==
    (/\ child.started /\ os_name = "posix" /\ avail
     /\ args.cmd.kind = "str" /\ ~args.shell /\ args.shell_type = "None") =>
        /\ \A j \in 1..Len(child.argv.v) :
              BeginsSegment(child.argv.v, j) =>
                  Lower(child.argv.v[j]) \notin PrivilegedNames
        /\ Same(args.cmd, Str(JoinSp(<<<<DQ, "apt", DQ>>, W("update")>>))) =>
              child.argv.v = <<W("sudo"), W("apt"), W("update")>>

----------------------------------------------------------------------------
(* C28: for a single-line entry with elevate unset whose run text begins   *)
(* with a privileged command name (apt update), run_commands on a Unix     *)
(* host with sudo available executes it elevated: the command the child    *)
(* gets has sudo in it, before the shell command or before the text.       *)

\* some word of argv is sudo or begins with it
Elevated(argv) == \E j \in 1..Len(argv) : argv[j] # <<>> /\ Lower(<<argv[j][1]>>) = <<"sudo">>

ConfiguredCommandElevated ==
    (/\ mpc = "call" /\ child.started
     /\ os_name = "posix" /\ avail
     /\ ~cmd_run.elevate /\ ~Contains(cmd_run.run, NL)
     /\ Lower(SplitWs(cmd_run.run, 1, <<>>)[1]) \in PrivilegedNames) =>
        /\ child.argv.kind = "list"
        /\ Elevated(child.argv.v)

----------------------------------------------------------------------------
(* C29: stripping is complete and idempotent.  After strip_sudo on a       *)
(* command that does not install sudo no segment of the result begins with *)
(* sudo and stripping the result again changes nothing; the same holds for *)
(* the command run_subprocess has rewritten on Windows.                    *)

\* some segment of c begins with sudo
SomeSegmentStartsWithSudo(c) ==
    \E i \in 1..Len(Segments(c)) : Lower(Segments(c)[i][1]) = <<"sudo">>

StripCompleteAfterStripSudo ==
    (helper.fn = "strip_sudo" /\ ~is_installing_sudo(helper.cmd)) =>
        /\ ~SomeSegmentStartsWithSudo(helper.result)
        /\ Same(strip_sudo(helper.result), helper.result)

StripCompleteOnWindows ==
    (InCall /\ os_name = "nt") =>
        /\ ~SomeSegmentStartsWithSudo(rewritten)
        /\ Same(Rewrite(rewritten, avail, os_name), rewritten)

\* both parts of the claim
StrippingCompleteAndIdempotent ==
    /\ StripCompleteAfterStripSudo
    /\ StripCompleteOnWindows

====
